---- MODULE Spec2Model ----
(***************************************************************************)
(* Model of main.py: the job queue kept as one job.json per directory      *)
(* under DATA_DIR (submit_form, api_next_job, api_upload_result) and the   *)
(* strategy / prompt derivation (auto_pick_niche, build_strategy,          *)
(* build_prompts).                                                         *)
(*                                                                         *)
(* Representation.  A Python str is a sequence of pieces whose             *)
(* concatenation is the string; user text and config keys are split into   *)
(* single characters, fixed template text is kept in larger pieces.        *)
(* None is the empty sequence (it is falsy exactly like "").  A dict whose *)
(* iteration order matters is a sequence of [key, val] entries.            *)
(***************************************************************************)
EXTENDS Integers, Sequences, FiniteSets, TLC

(***************************************************************************)
(* Bounds of the model.                                                    *)
(***************************************************************************)
MaxJobs == 2
MaxCalls == 3

None == <<>>
Some(v) == <<v>>

(***************************************************************************)
(* Strings.                                                                *)
(***************************************************************************)
UpperChars == <<"A","B","C","D","E","F","G","H","I","J","K","L","M",
                "N","O","P","Q","R","S","T","U","V","W","X","Y","Z">>
LowerChars == <<"a","b","c","d","e","f","g","h","i","j","k","l","m",
                "n","o","p","q","r","s","t","u","v","w","x","y","z">>
Whitespace == {" "}

\* str.lower() on one character
LowerChar(c) ==
  IF \E i \in 1..Len(UpperChars) : UpperChars[i] = c
  THEN LowerChars[CHOOSE i \in 1..Len(UpperChars) : UpperChars[i] = c]
  ELSE c

lower(s) == [i \in 1..Len(s) |-> LowerChar(s[i])]

\* str.strip(chars): drop the leading and trailing pieces that are in chars
RECURSIVE lstrip(_, _)
lstrip(s, chars) ==
  IF s # <<>> /\ Head(s) \in chars THEN lstrip(Tail(s), chars) ELSE s

RECURSIVE rstrip(_, _)
rstrip(s, chars) ==
  IF s # <<>> /\ s[Len(s)] \in chars THEN rstrip(SubSeq(s, 1, Len(s) - 1), chars) ELSE s

strip(s, chars) == rstrip(lstrip(s, chars), chars)

\* norm(s) = (s or "").strip().lower()
norm(s) == lower(strip(s, Whitespace))

\* Python's  kw in text  on strings: kw occurs as a contiguous substring
Contains(text, kw) ==
  \E i \in 1..(Len(text) - Len(kw) + 1) : SubSeq(text, i, i + Len(kw) - 1) = kw

\* sep.join(parts)
RECURSIVE join(_, _)
join(sep, parts) ==
  IF parts = <<>> THEN <<>>
  ELSE IF Len(parts) = 1 THEN parts[1]
  ELSE parts[1] \o sep \o join(sep, Tail(parts))

(***************************************************************************)
(* Dicts with insertion order.                                             *)
(***************************************************************************)
HasKey(d, k) == \E i \in 1..Len(d) : d[i].key = k
Get(d, k) == d[CHOOSE i \in 1..Len(d) : d[i].key = k].val
Keys(d) == {d[i].key : i \in 1..Len(d)}

(***************************************************************************)
(* Literal keys of the source.                                             *)
(***************************************************************************)
ai_tech == <<"a","i","_","t","e","c","h">>
photoreal == <<"p","h","o","t","o","r","e","a","l">>
face_big_text == <<"f","a","c","e","_","b","i","g","_","t","e","x","t">>
no_face_big_text == <<"n","o","_","f","a","c","e","_","b","i","g","_","t","e","x","t">>
auto == <<"a","u","t","o">>
AUTO == <<"A","U","T","O">>


(***************************************************************************)
(* Config catalogs used as inputs (thumbos_config.json is read by load_cfg *)
(* and is not part of the program).  Both have the five sections, the keys *)
(* ai_tech, photoreal and face_big_text, and every niche has a non-empty   *)
(* color_themes list naming known themes.  CfgPlain has no emotion named   *)
(* "AUTO"; CfgAutoKey has one and lists ai_tech first.                     *)
(***************************************************************************)
gaming == <<"g","a","m","i","n","g">>
finance == <<"f","i","n","a","n","c","e">>
cinematic == <<"c","i","n","e","m","a","t","i","c">>
happy == <<"h","a","p","p","y">>
neon_purple == <<"n","e","o","n","_","p","u","r","p","l","e">>
red_black == <<"r","e","d","_","b","l","a","c","k">>
blue_tech == <<"b","l","u","e","_","t","e","c","h">>
kw_game == <<"g","a","m","e">>
kw_play == <<"p","l","a","y">>
kw_cash == <<"c","a","s","h">>
kw_ai == <<"a","i">>

NicheGaming ==
  [key |-> gaming,
   val |-> [keywords |-> <<kw_game, kw_play>>,
            visual_cues |-> << <<"controller">>, <<"neon lights">> >>,
            color_themes |-> <<neon_purple, red_black>>]]
NicheFinance ==
  [key |-> finance,
   val |-> [keywords |-> <<kw_cash>>,
            visual_cues |-> << <<"charts">> >>,
            color_themes |-> <<red_black>>]]
NicheAiTech ==
  [key |-> ai_tech,
   val |-> [keywords |-> <<kw_ai>>,
            visual_cues |-> << <<"circuits">> >>,
            color_themes |-> <<blue_tech>>]]

Archetypes ==
  << [key |-> face_big_text,
      val |-> [layout |-> "face_left_text_right", prompt_mode |-> "subject_present"]],
     [key |-> no_face_big_text,
      val |-> [layout |-> "text_center", prompt_mode |-> "background_only"]] >>
Styles ==
  << [key |-> photoreal, val |-> [prompt |-> <<"photorealistic">>]],
     [key |-> cinematic, val |-> [prompt |-> <<"cinematic lighting">>]] >>
ColorThemes ==
  << [key |-> neon_purple, val |-> [prompt |-> <<"neon purple glow">>]],
     [key |-> red_black, val |-> [prompt |-> <<"red and black">>]],
     [key |-> blue_tech, val |-> [prompt |-> <<"blue tech tones">>]] >>
EmotionHappy == [key |-> happy, val |-> [prompt |-> <<"joyful expression">>]]
EmotionAuto == [key |-> AUTO, val |-> [prompt |-> <<>>]]

CfgPlain ==
  [niches |-> <<NicheGaming, NicheFinance, NicheAiTech>>,
   archetypes |-> Archetypes,
   styles |-> Styles,
   emotions |-> <<EmotionHappy>>,
   color_themes |-> ColorThemes]
CfgAutoKey ==
  [niches |-> <<NicheAiTech, NicheGaming, NicheFinance>>,
   archetypes |-> Archetypes,
   styles |-> Styles,
   emotions |-> <<EmotionAuto, EmotionHappy>>,
   color_themes |-> ColorThemes]
Configs == {CfgPlain, CfgAutoKey}

(***************************************************************************)
(* auto_pick_niche, auto_pick_archetype, build_strategy.                   *)
(***************************************************************************)
\* sum(1 for kw in v.get("keywords", []) if kw in text)
RECURSIVE Score(_, _)
Score(keywords, text) ==
  IF keywords = <<>> THEN 0
  ELSE (IF Contains(text, Head(keywords)) THEN 1 ELSE 0) + Score(Tail(keywords), text)

\* one pass of  for k, v in cfg["niches"].items()  with the comparison  >=
RECURSIVE PickLoopGe(_, _, _, _)
PickLoopGe(niches, text, best, best_score) ==
  IF niches = <<>> THEN best
  ELSE LET score == Score(Head(niches).val.keywords, text)
       IN IF score >= best_score
          THEN PickLoopGe(Tail(niches), text, Head(niches).key, score)
          ELSE PickLoopGe(Tail(niches), text, best, best_score)

\* the loop of auto_pick_niche: a niche replaces best only on a strictly higher score
RECURSIVE PickLoop(_, _, _, _)
PickLoop(niches, text, best, best_score) ==
  IF niches = <<>> THEN best
  ELSE LET score == Score(Head(niches).val.keywords, text)
       IN IF score > best_score
          THEN PickLoop(Tail(niches), text, Head(niches).key, score)
          ELSE PickLoop(Tail(niches), text, best, best_score)

auto_pick_niche(cfg, title, niche_hint) ==
  LET nh == norm(niche_hint)
      text == strip(norm(title) \o <<" ">> \o nh, Whitespace)
  IN IF HasKey(cfg.niches, nh) THEN nh
     ELSE PickLoop(cfg.niches, text, ai_tech, 0)

\* auto_pick_archetype with the two names exchanged
auto_pick_archetype_swapped(cfg, has_face) ==
  IF has_face THEN no_face_big_text ELSE face_big_text

auto_pick_archetype(cfg, has_face) ==
  IF has_face THEN face_big_text ELSE no_face_big_text

KeyError == [fault |-> "KeyError"]
IndexError == [fault |-> "IndexError"]
IsFault(r) == "fault" \in DOMAIN r

\* FirstColor reading color_themes[-1]
FirstColorLast(cfg, niche_key) ==
  IF ~HasKey(cfg.niches, niche_key) THEN KeyError
  ELSE IF Get(cfg.niches, niche_key).color_themes = <<>> THEN IndexError
  ELSE [color |-> Get(cfg.niches, niche_key).color_themes[
                    Len(Get(cfg.niches, niche_key).color_themes)]]

\* cfg["niches"][niche_key]["color_themes"][0], or the exception it raises
FirstColor(cfg, niche_key) ==
  IF ~HasKey(cfg.niches, niche_key) THEN KeyError
  ELSE IF Get(cfg.niches, niche_key).color_themes = <<>> THEN IndexError
  ELSE [color |-> Get(cfg.niches, niche_key).color_themes[1]]

\* the job dicts passed in are the ones submit_form wrote, so every .get() finds its key
build_strategy(cfg, job) ==
  LET title == job.video.title
      niche_hint == job.video.niche
      has_face == job.uploads.face # <<>>
      archetype0 == norm(job.creative.archetype)
      style == norm(job.creative.style)
      emotion == norm(job.creative.emotion)
      color0 == norm(job.creative.color_theme)
      niche_key == auto_pick_niche(cfg, title, niche_hint)
      archetype == IF archetype0 \in {auto, <<>>}
                   THEN auto_pick_archetype(cfg, has_face) ELSE archetype0
      first == FirstColor(cfg, niche_key)
  IN IF ~HasKey(cfg.archetypes, archetype) /\ ~HasKey(cfg.archetypes, face_big_text)
     THEN KeyError
     ELSE
       LET arch == IF HasKey(cfg.archetypes, archetype)
                   THEN Get(cfg.archetypes, archetype)
                   ELSE Get(cfg.archetypes, face_big_text)
       IN IF color0 \in {auto, <<>>} /\ IsFault(first) THEN first
          ELSE
            LET color == IF color0 \in {auto, <<>>} THEN first.color ELSE color0
            IN IF ~HasKey(cfg.color_themes, color) /\ IsFault(first) THEN first
               ELSE
                 [niche_key |-> niche_key,
                  archetype |-> archetype,
                  layout |-> arch.layout,
                  prompt_mode |-> arch.prompt_mode,
                  style |-> IF HasKey(cfg.styles, style) THEN style ELSE photoreal,
                  emotion |-> IF HasKey(cfg.emotions, emotion) THEN emotion ELSE AUTO,
                  color_theme |-> IF HasKey(cfg.color_themes, color)
                                  THEN color ELSE first.color,
                  has_face |-> has_face]

(***************************************************************************)
(* build_prompts.                                                          *)
(***************************************************************************)
Sep == <<", ">>
SepChars == {", ", ",", " "}

BaseNegativeTerms ==
  << <<"watermark">>, <<"signature">>, <<"text">>, <<"letters">>, <<"typography">>,
     <<"logo">>, <<"lowres">>, <<"blurry">>, <<"noise">>, <<"jpeg artifacts">>,
     <<"bad anatomy">>, <<"deformed">>, <<"disfigured">>, <<"extra limbs">>,
     <<"extra fingers">>, <<"cross-eyed">>, <<"weird pupils">>,
     <<"cartoon">>, <<"anime">>, <<"illustration">>, <<"painting">>, <<"cgi">>,
     <<"3d render">> >>
\* BASE_NEGATIVE with closeup listed in the base lexicon as well
BASE_NEGATIVE_closeup == join(Sep, BaseNegativeTerms \o << <<"closeup">> >>)

BASE_NEGATIVE == join(Sep, BaseNegativeTerms)

composition ==
  <<"YouTube thumbnail background, 16:9, high contrast, vibrant but clean, sharp focus, BIG CLEAN NEGATIVE SPACE for later text overlay, professional thumbnail design, NO TEXT, NO WORDS">>

build_prompts(cfg, job, strategy) ==
  LET title == job.video.title
  IN IF \/ ~HasKey(cfg.niches, strategy.niche_key)
        \/ ~HasKey(cfg.styles, strategy.style)
        \/ ~HasKey(cfg.emotions, strategy.emotion)
        \/ ~HasKey(cfg.color_themes, strategy.color_theme)
     THEN KeyError
     ELSE
       LET niche == Get(cfg.niches, strategy.niche_key)
           cues == join(Sep, niche.visual_cues)
           style_p == Get(cfg.styles, strategy.style).prompt
           emo_p == Get(cfg.emotions, strategy.emotion).prompt
           col_p == Get(cfg.color_themes, strategy.color_theme).prompt
           background == strategy.prompt_mode = "background_only"
           subject ==
             IF background
             THEN <<"BACKGROUND ONLY, no people, no face, no human, no hands, no character">>
             ELSE <<"one person, medium close-up, looking at camera, natural proportions">>
           neg ==
             IF background
             THEN BASE_NEGATIVE \o Sep \o
                  join(Sep, << <<"person">>, <<"people">>, <<"human">>, <<"face">>,
                               <<"portrait">>, <<"selfie">>, <<"eye">>, <<"eyes">>,
                               <<"closeup">>, <<"macro">> >>)
             ELSE BASE_NEGATIVE \o Sep \o join(Sep, << <<"closeup">>, <<"macro">> >>)
           topic == IF title # <<>> THEN <<"topic:", " ">> \o title ELSE <<>>
           positive ==
             strip(strip(join(Sep, <<composition, style_p, emo_p, col_p, cues, subject, topic>>),
                         SepChars),
                   Whitespace)
       IN [positive |-> positive, negative |-> neg]


(***************************************************************************)
(* The job store and the request handlers.                                 *)
(*                                                                         *)
(* A job id stands for the directory name "JOB_" + 12 hex digits; the      *)
(* order of the integers is the lexical order of those names.  Handlers    *)
(* declared with def run on worker threads and the two async handlers      *)
(* yield at every await, so a handler is one action per access to the      *)
(* shared store.  require_key is taken to pass.                            *)
(***************************************************************************)
JobIds == 1..MaxJobs
Claimants == {"w1", "w2"}

VARIABLES
  cfg,       \* what load_cfg() returns
  clock,     \* the value now_iso() returns next
  dirs,      \* the directories under DATA_DIR
  file,      \* job id -> state of DATA_DIR/<id>/job.json
  upfiles,   \* job id -> names of the files under uploads/
  resfiles,  \* job id -> names of the files under results/
  sub,       \* the submit_form call in progress
  cl,        \* claimant -> the api_next_job call in progress
  co,        \* the api_upload_result call in progress
  returned,  \* job id -> number of api_next_job calls that returned the job
  durable,   \* job id -> the latest complete text job.json has held, None before the first
  calls,     \* number of requests received so far
  faulted,   \* the job ids on which an api_next_job call raised while computing the plan
  sjob, strategy, prompts   \* a job dict and the plan derived from it on its own

svars == <<sjob, strategy, prompts>>
vars == <<cfg, clock, dirs, file, upfiles, resfiles, sub, cl, co, returned, durable, calls,
          faulted, sjob, strategy, prompts>>

Absent == [kind |-> "absent"]
Torn == [kind |-> "torn"]
Json(job) == [kind |-> "json", job |-> job]

\* p.write_text(...) opens the file for writing, which truncates it
OpenTruncate(f, id) == [f EXCEPT ![id] = Torn]

\* ... and the close flushes the text; a second writer that had the file open
\* when another one closed a longer text may leave the tail of that text behind
CloseOutcomes(job, overlapped) ==
  IF overlapped THEN {Json(job), Torn} ELSE {Json(job)}

\* json.dumps(job, indent=2) of one job: the computed plan is by far the longest
\* value, the results names come next, and two texts with the same values set
\* differ in length when a stamp of one has no microseconds or one has a preview
TextRank(job) ==
  (IF job.computed.strategy # None THEN 2 ELSE 0) + (IF job.results.zip # None THEN 1 ELSE 0)
CanOutgrow(a, b) ==
  \/ TextRank(a) > TextRank(b)
  \/ TextRank(a) = TextRank(b) /\ a # b

\* the latest complete text of job.json after a close left content in it
Latest(id, content) ==
  IF content.kind = "json" THEN [durable EXCEPT ![id] = Some(content.job)] ELSE durable

\* now_iso(): wall-clock time, which may or may not have advanced
Advance(t) == {t, t + 1}

RECURSIVE sorted(_)
sorted(S) ==
  IF S = {} THEN <<>>
  ELSE LET m == CHOOSE x \in S : \A y \in S : x <= y
       IN <<m>> \o sorted(S \ {m})

(***************************************************************************)
(* submit_form                                                             *)
(***************************************************************************)
FormPlain ==
  [agent_name |-> <<"ann">>, client_name |-> <<"acme">>, client_contact |-> <<"a@x">>,
   video_title |-> <<"G","a","m","e"," ","C","a","s","h">>, niche |-> <<>>,
   archetype |-> AUTO, emotion |-> <<"H","a","p","p","y">>, style |-> photoreal,
   color_theme |-> AUTO, thumb_text |-> <<>>, options |-> 5, w |-> 1344, h |-> 768,
   face |-> FALSE, logo |-> FALSE, ref_img |-> FALSE]
FormFace ==
  [agent_name |-> <<"bob">>, client_name |-> <<"bolt">>, client_contact |-> <<"b@x">>,
   video_title |-> <<"A","I"," ","G","a","m","e">>, niche |-> <<>>,
   archetype |-> AUTO, emotion |-> AUTO, style |-> photoreal,
   color_theme |-> AUTO, thumb_text |-> <<>>, options |-> 5, w |-> 1344, h |-> 768,
   face |-> TRUE, logo |-> TRUE, ref_img |-> FALSE]
Forms == {FormPlain, FormFace}

save_up(present, name) == IF present THEN <<name>> ELSE None

NewJob(job_id, form, now) ==
  [job_id |-> job_id,
   status |-> "queued",
   created_at |-> Some(now),
   claimed_at |-> None,
   done_at |-> None,
   agent |-> [name |-> form.agent_name],
   client |-> [name |-> form.client_name, contact |-> form.client_contact],
   video |-> [title |-> form.video_title, niche |-> form.niche],
   creative |-> [archetype |-> form.archetype, emotion |-> form.emotion,
                 style |-> form.style, color_theme |-> form.color_theme,
                 thumb_text |-> form.thumb_text, options |-> form.options,
                 size |-> [w |-> form.w, h |-> form.h]],
   uploads |-> [face |-> save_up(form.face, "face.png"),
                logo |-> save_up(form.logo, "logo.png"),
                ref_img |-> save_up(form.ref_img, "ref.jpg")],
   results |-> [zip |-> None, preview |-> None],
   computed |-> [strategy |-> None, prompts |-> None]]

SubIdle == [pc |-> "idle", id |-> 0, form |-> None, job |-> None]

\* uuid4 gives a name no directory has yet; the two mkdir calls
SubmitMkdir ==
  /\ sub.pc = "idle"
  /\ calls < MaxCalls
  /\ calls' = calls + 1
  /\ \E id \in JobIds \ dirs : \E form \in Forms :
       /\ dirs' = dirs \cup {id}
       /\ sub' = [pc |-> "save_up", id |-> id, form |-> Some(form), job |-> None]
  /\ UNCHANGED <<cfg, faulted, clock, file, upfiles, resfiles, cl, co, returned, durable, svars>>

\* the three save_up calls
SubmitSaveUp ==
  /\ sub.pc = "save_up"
  /\ LET form == sub.form[1]
     IN upfiles' = [upfiles EXCEPT ![sub.id] =
                      (IF form.face THEN {"face.png"} ELSE {}) \cup
                      (IF form.logo THEN {"logo.png"} ELSE {}) \cup
                      (IF form.ref_img THEN {"ref.jpg"} ELSE {})]
  /\ sub' = [sub EXCEPT !.pc = "build"]
  /\ UNCHANGED <<cfg, faulted, clock, dirs, file, resfiles, cl, co, returned, durable, calls, svars>>

\* the job dict is built and write_job opens job.json
SubmitWriteOpen ==
  /\ sub.pc = "build"
  /\ sub' = [sub EXCEPT !.pc = "writing", !.job = Some(NewJob(sub.id, sub.form[1], clock))]
  /\ file' = OpenTruncate(file, sub.id)
  /\ clock' \in Advance(clock)
  /\ UNCHANGED <<cfg, faulted, dirs, upfiles, resfiles, cl, co, returned, durable, calls, svars>>

\* write_job closes job.json and the handler returns the page
SubmitWriteClose ==
  /\ sub.pc = "writing"
  /\ file' = [file EXCEPT ![sub.id] = Json(sub.job[1])]
  /\ durable' = [durable EXCEPT ![sub.id] = Some(sub.job[1])]
  /\ sub' = SubIdle
  /\ UNCHANGED <<cfg, faulted, clock, dirs, upfiles, resfiles, cl, co, returned, calls, svars>>


(***************************************************************************)
(* api_next_job                                                            *)
(***************************************************************************)
ClaimIdle == [pc |-> "idle", todo |-> <<>>, job |-> None, ovl |-> FALSE]

\* a writer closes job.json with the text of job: every other writer that has the
\* file open and holds a text this one can be longer than is overlapped
MarkCl(job) ==
  [q \in Claimants |->
     IF cl[q].pc = "writing" /\ cl[q].job[1].job_id = job.job_id
          /\ CanOutgrow(job, cl[q].job[1])
     THEN [cl[q] EXCEPT !.ovl = TRUE] ELSE cl[q]]
MarkCo(job) ==
  IF co.pc = "writing" /\ co.id = job.job_id /\ CanOutgrow(job, co.job[1])
  THEN [co EXCEPT !.ovl = TRUE] ELSE co

\* load_cfg() and  jobs = sorted(p for p in DATA_DIR.iterdir() if p.is_dir())
ClaimScan(c) ==
  /\ cl[c].pc = "idle"
  /\ calls < MaxCalls
  /\ calls' = calls + 1
  /\ cl' = [cl EXCEPT ![c] = [pc |-> "loop", todo |-> sorted(dirs), job |-> None,
                              ovl |-> FALSE]]
  /\ UNCHANGED <<cfg, faulted, clock, dirs, file, upfiles, resfiles, sub, co, returned, durable, svars>>

\* the list is exhausted:  return {"job": None}
ClaimReturnNone(c) ==
  /\ cl[c].pc = "loop"
  /\ cl[c].todo = <<>>
  /\ cl' = [cl EXCEPT ![c] = ClaimIdle]
  /\ UNCHANGED <<cfg, faulted, clock, dirs, file, upfiles, resfiles, sub, co, returned, durable, calls, svars>>

\* ClaimRead with the stamped record written before the plan is computed
ClaimReadStampFirst(c) ==
  /\ cl[c].pc = "loop"
  /\ cl[c].todo # <<>>
  /\ LET d == Head(cl[c].todo)
         rec == file[d]
     IN IF rec.kind = "absent"
        THEN /\ cl' = [cl EXCEPT ![c] = ClaimIdle]
             /\ UNCHANGED <<clock, faulted, file, durable>>
        ELSE IF rec.kind = "torn"
        THEN /\ cl' = [cl EXCEPT ![c] = ClaimIdle]
             /\ UNCHANGED <<clock, faulted, file, durable>>
        ELSE IF rec.job.status # "queued"
        THEN /\ cl' = [cl EXCEPT ![c].todo = Tail(cl[c].todo)]
             /\ UNCHANGED <<clock, faulted, file, durable>>
        ELSE LET job1 == [rec.job EXCEPT !.status = "processing",
                                         !.claimed_at = Some(clock)]
                 strat == build_strategy(cfg, job1)
                 prm == IF IsFault(strat) THEN strat ELSE build_prompts(cfg, job1, strat)
             IN /\ clock' \in Advance(clock)
                /\ IF IsFault(prm)
                   THEN /\ cl' = [cl EXCEPT ![c] = ClaimIdle]
                        /\ faulted' = faulted \cup {d}
                        /\ file' = [file EXCEPT ![d] = Json(job1)]
                        /\ durable' = [durable EXCEPT ![d] = Some(job1)]
                   ELSE /\ cl' = [cl EXCEPT ![c].pc = "write",
                                            ![c].job = Some([job1 EXCEPT
                                               !.computed = [strategy |-> Some(strat),
                                                             prompts |-> Some(prm)]])]
                        /\ faulted' = faulted
                        /\ UNCHANGED <<file, durable>>
  /\ UNCHANGED <<cfg, dirs, upfiles, resfiles, sub, co, returned, calls, svars>>

\* one iteration: read_job(d.name), the status test and, for a queued job, the
\* stamping and the plan computation up to the call of write_job
ClaimRead(c) ==
  /\ cl[c].pc = "loop"
  /\ cl[c].todo # <<>>
  /\ LET d == Head(cl[c].todo)
         rec == file[d]
     IN IF rec.kind = "absent"
        THEN /\ cl' = [cl EXCEPT ![c] = ClaimIdle]
             /\ UNCHANGED <<clock, faulted>>
        ELSE IF rec.kind = "torn"
        THEN /\ cl' = [cl EXCEPT ![c] = ClaimIdle]
             /\ UNCHANGED <<clock, faulted>>
        ELSE IF rec.job.status # "queued"
        THEN /\ cl' = [cl EXCEPT ![c].todo = Tail(cl[c].todo)]
             /\ UNCHANGED <<clock, faulted>>
        ELSE LET job1 == [rec.job EXCEPT !.status = "processing",
                                         !.claimed_at = Some(clock)]
                 strat == build_strategy(cfg, job1)
                 prm == IF IsFault(strat) THEN strat ELSE build_prompts(cfg, job1, strat)
             IN /\ clock' \in Advance(clock)
                /\ IF IsFault(prm)
                   THEN /\ cl' = [cl EXCEPT ![c] = ClaimIdle]
                        /\ faulted' = faulted \cup {d}
                   ELSE /\ cl' = [cl EXCEPT ![c].pc = "write",
                                            ![c].job = Some([job1 EXCEPT
                                               !.computed = [strategy |-> Some(strat),
                                                             prompts |-> Some(prm)]])]
                        /\ faulted' = faulted
  /\ UNCHANGED <<cfg, dirs, file, upfiles, resfiles, sub, co, returned, durable, calls, svars>>

\* write_job(job["job_id"], job) opens job.json
ClaimWriteOpen(c) ==
  /\ cl[c].pc = "write"
  /\ file' = OpenTruncate(file, cl[c].job[1].job_id)
  /\ cl' = [cl EXCEPT ![c].pc = "writing"]
  /\ UNCHANGED <<cfg, faulted, clock, dirs, upfiles, resfiles, sub, co, returned, durable, calls, svars>>

\* write_job closes job.json and the handler returns the job
ClaimWriteClose(c) ==
  /\ cl[c].pc = "writing"
  /\ LET job == cl[c].job[1]
     IN /\ \E content \in CloseOutcomes(job, cl[c].ovl) :
             /\ file' = [file EXCEPT ![job.job_id] = content]
             /\ durable' = Latest(job.job_id, content)
        /\ cl' = [MarkCl(job) EXCEPT ![c] = ClaimIdle]
        /\ co' = MarkCo(job)
        /\ returned' = [returned EXCEPT ![job.job_id] = @ + 1]
  /\ UNCHANGED <<cfg, faulted, clock, dirs, upfiles, resfiles, sub, calls, svars>>

(***************************************************************************)
(* api_upload_result                                                       *)
(***************************************************************************)
\* f"{job_id}.zip" and f"{job_id}_preview.png", inside the job's own results directory
zip_name == "job_id.zip"
prev_name == "job_id_preview.png"

CoIdle(res) ==
  [pc |-> "idle", id |-> 0, pv |-> FALSE, job |-> None, res |-> res, ovl |-> FALSE]

\* the request is received: job_id from the path, zip_file and preview from the body
CompleteCall(id, pv) ==
  /\ co.pc = "idle"
  /\ calls < MaxCalls
  /\ calls' = calls + 1
  /\ co' = [pc |-> "read", id |-> id, pv |-> pv, job |-> None, res |-> "none", ovl |-> FALSE]
  /\ UNCHANGED <<cfg, faulted, clock, dirs, file, upfiles, resfiles, sub, cl, returned, durable, svars>>

\* the handler with the zip written before read_job is called
CompleteReadSaveFirst ==
  /\ co.pc = "read"
  /\ dirs' = dirs \cup {co.id}
  /\ resfiles' = [resfiles EXCEPT ![co.id] = @ \cup {zip_name}]
  /\ LET rec == file[co.id]
     IN IF rec.kind = "absent" THEN co' = CoIdle("404")
        ELSE IF rec.kind = "torn" THEN co' = CoIdle("500")
        ELSE co' = [co EXCEPT !.pc = "save", !.job = Some(rec.job)]
  /\ UNCHANGED <<cfg, faulted, clock, file, upfiles, sub, cl, returned, durable, calls, svars>>

\* job = read_job(job_id)
CompleteRead ==
  /\ co.pc = "read"
  /\ LET rec == file[co.id]
     IN IF rec.kind = "absent" THEN co' = CoIdle("404")
        ELSE IF rec.kind = "torn" THEN co' = CoIdle("500")
        ELSE co' = [co EXCEPT !.pc = "save", !.job = Some(rec.job)]
  /\ UNCHANGED <<cfg, faulted, clock, dirs, file, upfiles, resfiles, sub, cl, returned, durable, calls, svars>>

\* CompleteSave without the write of the preview
CompleteSaveZipOnly ==
  /\ co.pc = "save"
  /\ dirs' = dirs \cup {co.id}
  /\ resfiles' = [resfiles EXCEPT ![co.id] = @ \cup {zip_name}]
  /\ co' = [co EXCEPT !.pc = "write"]
  /\ UNCHANGED <<cfg, faulted, clock, file, upfiles, sub, cl, returned, durable, calls, svars>>

\* results_dir.mkdir and the write of the zip and, when sent, of the preview
CompleteSave ==
  /\ co.pc = "save"
  /\ dirs' = dirs \cup {co.id}
  /\ resfiles' = [resfiles EXCEPT ![co.id] =
                    @ \cup {zip_name} \cup (IF co.pv THEN {prev_name} ELSE {})]
  /\ co' = [co EXCEPT !.pc = "write"]
  /\ UNCHANGED <<cfg, faulted, clock, file, upfiles, sub, cl, returned, durable, calls, svars>>


\* CompleteWriteOpen storing the zip name under uploads as well
CompleteWriteOpenUploads ==
  /\ co.pc = "write"
  /\ co' = [co EXCEPT !.pc = "writing",
                      !.job = Some([co.job[1] EXCEPT
                                      !.uploads = [@ EXCEPT !.ref_img = Some(zip_name)],
                                      !.results =
                                        [zip |-> Some(zip_name),
                                         preview |-> IF co.pv THEN Some(prev_name)
                                                     ELSE None],
                                      !.status = "done",
                                      !.done_at = Some(clock)])]
  /\ file' = OpenTruncate(file, co.id)
  /\ clock' \in Advance(clock)
  /\ UNCHANGED <<cfg, faulted, dirs, upfiles, resfiles, sub, cl, returned, durable, calls, svars>>

\* the four assignments and write_job opening job.json
CompleteWriteOpen ==
  /\ co.pc = "write"
  /\ co' = [co EXCEPT !.pc = "writing",
                      !.job = Some([co.job[1] EXCEPT
                                      !.results =
                                        [zip |-> Some(zip_name),
                                         preview |-> IF co.pv THEN Some(prev_name)
                                                     ELSE None],
                                      !.status = "done",
                                      !.done_at = Some(clock)])]
  /\ file' = OpenTruncate(file, co.id)
  /\ clock' \in Advance(clock)
  /\ UNCHANGED <<cfg, faulted, dirs, upfiles, resfiles, sub, cl, returned, durable, calls, svars>>

\* write_job closes job.json and the handler returns ok
CompleteWriteClose ==
  /\ co.pc = "writing"
  /\ \E content \in CloseOutcomes(co.job[1], co.ovl) :
       /\ file' = [file EXCEPT ![co.id] = content]
       /\ durable' = Latest(co.id, content)
  /\ co' = CoIdle("ok")
  /\ cl' = MarkCl(co.job[1])
  /\ UNCHANGED <<cfg, faulted, clock, dirs, upfiles, resfiles, sub, returned, calls, svars>>

(***************************************************************************)
(* The server.                                                             *)
(***************************************************************************)
QInit ==
  /\ clock = 1
  /\ dirs = {}
  /\ file = [id \in JobIds |-> Absent]
  /\ upfiles = [id \in JobIds |-> {}]
  /\ resfiles = [id \in JobIds |-> {}]
  /\ sub = SubIdle
  /\ cl = [c \in Claimants |-> ClaimIdle]
  /\ co = CoIdle("none")
  /\ returned = [id \in JobIds |-> 0]
  /\ durable = [id \in JobIds |-> None]
  /\ calls = 0
  /\ faulted = {}

SIdle ==
  /\ sjob = None
  /\ strategy = None
  /\ prompts = None

Init ==
  /\ cfg \in Configs
  /\ QInit
  /\ SIdle

Submit == SubmitMkdir \/ SubmitSaveUp \/ SubmitWriteOpen \/ SubmitWriteClose
Claim(c) ==
  \/ ClaimScan(c) \/ ClaimReturnNone(c) \/ ClaimRead(c)
  \/ ClaimWriteOpen(c) \/ ClaimWriteClose(c)
Complete ==
  \/ \E id \in JobIds : \E pv \in BOOLEAN : CompleteCall(id, pv)
  \/ CompleteRead \/ CompleteSave \/ CompleteWriteOpen \/ CompleteWriteClose

Next ==
  \/ Submit
  \/ \E c \in Claimants : Claim(c)
  \/ Complete

Spec == Init /\ [][Next]_vars

\* the server with intake and workers only: submissions and calls of api_next_job.
\* A handler that has started runs to its end, and the workers keep polling.
NextWorker ==
  \/ Submit
  \/ \E c \in Claimants : Claim(c)

WorkerFairness ==
  /\ WF_vars(SubmitSaveUp \/ SubmitWriteOpen \/ SubmitWriteClose)
  /\ \A c \in Claimants : WF_vars(Claim(c))

SpecWorker == Init /\ [][NextWorker]_vars /\ WorkerFairness


(***************************************************************************)
(* The derivation on its own: build_strategy and build_prompts applied to  *)
(* job dicts whose title and hints range over the cases below.             *)
(***************************************************************************)
Titles ==
  { <<>>,
    <<"C","a","t">>,
    <<"G","a","m","e"," ","C","a","s","h">>,
    <<" ","P","l","a","y"," ","g","a","m","e"," ","c","a","s","h">>,
    <<"A","I"," ","G","a","m","e">> }
NicheHints == { <<>>, <<" ","G","a","m","i","n","g"," ">>, <<"c","a","s","h">> }
ArchetypeHints == { AUTO, <<>>, <<"S","p","l","i","t">>, no_face_big_text }
EmotionHints == { AUTO, <<"H","a","p","p","y">>, <<"s","a","d">> }
StyleHints == { photoreal, <<"C","i","n","e","m","a","t","i","c">>, <<"o","i","l">> }
ColorHints == { AUTO, red_black, <<"R","e","d","_","B","l","a","c","k">>, <<"p","i","n","k">> }

StrategyForms ==
  { [FormPlain EXCEPT !.video_title = t, !.niche = n, !.archetype = a, !.emotion = e,
                      !.style = st, !.color_theme = c, !.face = f] :
      t \in Titles, n \in NicheHints, a \in ArchetypeHints, e \in EmotionHints,
      st \in StyleHints, c \in ColorHints, f \in BOOLEAN }

InitStrategy ==
  /\ cfg \in Configs
  /\ QInit
  /\ sjob \in {Some(NewJob(1, form, 1)) : form \in StrategyForms}
  /\ strategy = None
  /\ prompts = None

\* strategy = build_strategy(cfg, job)
Resolve ==
  /\ sjob # None
  /\ strategy = None
  /\ strategy' = Some(build_strategy(cfg, sjob[1]))
  /\ UNCHANGED <<cfg, faulted, clock, dirs, file, upfiles, resfiles, sub, cl, co, returned, durable,
                 calls, sjob, prompts>>

\* prompts = build_prompts(cfg, job, strategy), reached when build_strategy returned
Build ==
  /\ strategy # None
  /\ ~IsFault(strategy[1])
  /\ prompts = None
  /\ prompts' = Some(build_prompts(cfg, sjob[1], strategy[1]))
  /\ UNCHANGED <<cfg, faulted, clock, dirs, file, upfiles, resfiles, sub, cl, co, returned, durable,
                 calls, sjob, strategy>>

NextStrategy == Resolve \/ Build

SpecStrategy == InitStrategy /\ [][NextStrategy]_vars


(***************************************************************************)
(* Properties.                                                             *)
(***************************************************************************)
Queued(id) == file[id].kind = "json" /\ file[id].job.status = "queued"
NoQueued == \A id \in JobIds : ~Queued(id)

\* C1: each job is returned by at most one api_next_job call, whatever the
\* interleaving of the calls' scan, read and write.
AtMostOneClaim == \A id \in JobIds : returned[id] <= 1

StatusSteps ==
  { <<"queued", "queued">>, <<"queued", "processing">>, <<"processing", "processing">>,
    <<"processing", "done">>, <<"done", "done">> }

\* C2: the status values a job's persisted record holds over time form a prefix of
\* queued, processing, done: a record starts queued and no rewrite takes it from
\* processing to queued, from done to processing or queued, or from queued to done.
MonotonicLifecycle ==
  [][\A id \in JobIds :
       durable'[id] # durable[id] =>
         IF durable[id] = None THEN durable'[id][1].status = "queued"
         ELSE <<durable[id][1].status, durable'[id][1].status>> \in StatusSteps]_vars

\* a sorts before b in the order of created_at, ties broken by id
Earlier(a, b) ==
  \/ a.created_at[1] < b.created_at[1]
  \/ a.created_at[1] = b.created_at[1] /\ a.job_id <= b.job_id

\* the directories a call of api_next_job listed and has not passed yet
Listed(c) == {cl[c].todo[i] : i \in 1..Len(cl[c].todo)}

\* C3: a call of api_next_job that selects a job selects the queued job with the
\* smallest created_at (ties broken by id) among the jobs it listed, whatever the
\* ids of the jobs.
FifoByCreation ==
  [][\A c \in Claimants :
       (cl[c].pc = "loop" /\ cl'[c].pc = "write") =>
         \A id \in Listed(c) : Queued(id) => Earlier(cl'[c].job[1], file[id].job)]_vars

\* C4: api_upload_result on a job whose record is queued or done is refused as an
\* invalid transition and leaves the record as it was.
CompleteNeedsProcessing ==
  [][(co.pc = "read" /\ co' # co /\ file[co.id].kind = "json"
        /\ file[co.id].job.status # "processing") =>
       (co'.pc = "idle" /\ co'.res = "InvalidTransition" /\ file' = file)]_vars

\* C5: once a job has had a complete record, job.json holds a complete record in
\* every state: its latest one, never an empty, partial or corrupt text.
NoTornRecord ==
  \A id \in JobIds : durable[id] # None => file[id] = Json(durable[id][1])

\* C6: while no record has status queued, no step of api_next_job ends the call
\* with an error or changes a record: the call goes on scanning or, at the end
\* of its list, returns {"job": None}.
ClaimEmptyWhenNoneQueued ==
  [][\A c \in Claimants :
       (cl[c].pc = "loop" /\ cl'[c] # cl[c] /\ NoQueued) =>
         /\ file' = file
         /\ \/ cl'[c].pc = "loop"
            \/ cl'[c].pc = "idle" /\ cl[c].todo = <<>>]_vars

ClaimCloses == \E c \in Claimants : cl[c].pc = "writing" /\ cl'[c].pc = "idle"
CompleteCloses == co.pc = "writing" /\ co'.pc = "idle"

\* C7: claimed_at and computed are written by api_next_job only, done_at and
\* results by api_upload_result only, and once one of them is set in the persisted
\* record no later write changes it or resets it.
WriteOnceFields ==
  [][\A id \in JobIds :
       (durable[id] # None /\ durable'[id] # durable[id]) =>
         LET old == durable[id][1]
             new == durable'[id][1]
         IN /\ old.claimed_at # None => new.claimed_at = old.claimed_at
            /\ old.computed.strategy # None => new.computed = old.computed
            /\ old.done_at # None => new.done_at = old.done_at
            /\ old.results.zip # None => new.results = old.results
            /\ (new.claimed_at # old.claimed_at \/ new.computed # old.computed)
                 => ClaimCloses
            /\ (new.done_at # old.done_at \/ new.results # old.results)
                 => CompleteCloses]_vars

\* C8: api_upload_result for an id that has no job.json answers 404 and leaves
\* the store as it was: no directory, record or result file is created and no
\* record is changed.
CompleteUnknownRejected ==
  [][(co.pc = "read" /\ co' # co /\ file[co.id].kind = "absent") =>
       /\ co'.pc = "idle"
       /\ co'.res = "404"
       /\ UNCHANGED <<dirs, file, upfiles, resfiles, durable>>]_vars

\* an upload_result request has been answered 404
RejectedNotFound == co.pc = "idle" /\ co.res = "404"

\* the blob and the counts niche selection works on
Blob(job) == strip(norm(job.video.title) \o <<" ">> \o norm(job.video.niche), Whitespace)
Count(i) == Score(cfg.niches[i].val.keywords, Blob(sjob[1]))
NicheIdx == 1..Len(cfg.niches)
Top == {i \in NicheIdx : \A j \in NicheIdx : Count(j) <= Count(i)}
TopCount == Count(CHOOSE i \in Top : TRUE)
FirstTop == CHOOSE i \in Top : \A j \in Top : i <= j
Scored ==
  /\ strategy # None
  /\ ~IsFault(strategy[1])
  /\ ~HasKey(cfg.niches, norm(sjob[1].video.niche))

\* C9 as stated: when the hint is no key of config.niches the niche is the one with
\* the strictly highest count, and ai_tech when niches tie for the highest count or
\* every count is zero.
NicheTieDefault ==
  Scored =>
    strategy[1].niche_key =
      IF Cardinality(Top) = 1 /\ TopCount > 0 THEN cfg.niches[FirstTop].key ELSE ai_tech

\* C9 amended: when the hint is no key of config.niches the niche is the one with the
\* highest count, the first of them in the order of config.niches when several tie
\* for it, and ai_tech when every count is zero.
NicheFirstHighest ==
  Scored =>
    strategy[1].niche_key = IF TopCount > 0 THEN cfg.niches[FirstTop].key ELSE ai_tech

\* niches tie for a highest count above zero and the first of them was chosen
NicheTieResolved ==
  /\ Scored
  /\ Cardinality(Top) >= 2
  /\ TopCount > 0
  /\ strategy[1].niche_key = cfg.niches[FirstTop].key
  /\ strategy[1].niche_key # ai_tech

\* C10: for every job and every well-formed config build_strategy returns a
\* strategy and build_prompts returns a {positive, negative} pair; neither raises,
\* also when the emotion resolved to the AUTO marker.
ResolveBuildTotal ==
  /\ strategy # None => ~IsFault(strategy[1])
  /\ prompts # None =>
       /\ ~IsFault(prompts[1])
       /\ DOMAIN prompts[1] = {"positive", "negative"}

\* build_strategy returned a strategy for the job
Resolved == strategy # None /\ ~IsFault(strategy[1])
ColorHint == sjob[1].creative.color_theme
NicheColors == Get(cfg.niches, strategy[1].niche_key).color_themes

\* C11 as stated: a color hint that is not AUTO and is a key of config.color_themes
\* is the strategy's colorTheme; for every other hint the colorTheme is the first
\* entry of the selected niche's color_themes list.
ColorHintOrFirst ==
  Resolved =>
    strategy[1].color_theme =
      IF ColorHint # AUTO /\ HasKey(cfg.color_themes, ColorHint)
      THEN ColorHint ELSE NicheColors[1]

\* C11 amended: the color hint is trimmed and lower-cased first; when the result is
\* neither auto nor blank and is a key of config.color_themes it is the strategy's
\* colorTheme, otherwise the colorTheme is the first entry of the selected niche's
\* color_themes list; the colorTheme is always a key of config.color_themes.
ColorNormHintOrFirst ==
  Resolved =>
    /\ strategy[1].color_theme =
         IF norm(ColorHint) \notin {auto, <<>>} /\ HasKey(cfg.color_themes, norm(ColorHint))
         THEN norm(ColorHint) ELSE NicheColors[1]
    /\ HasKey(cfg.color_themes, strategy[1].color_theme)

\* a hint that is a key only once normalized was kept, in place of a different
\* first entry of the niche's list
ColorNormHintKept ==
  /\ Resolved
  /\ ~HasKey(cfg.color_themes, ColorHint)
  /\ HasKey(cfg.color_themes, norm(ColorHint))
  /\ strategy[1].color_theme = norm(ColorHint)
  /\ NicheColors[1] # norm(ColorHint)
  /\ Len(NicheColors) >= 2

ArchetypeHint == sjob[1].creative.archetype

\* C12: for an explicit archetype hint (not AUTO or blank) that is no key of
\* config.archetypes the strategy takes the default archetype face_big_text: its
\* archetype field, layout and promptMode are those of the default; and the
\* archetype field of every strategy is a key of config.archetypes.
UnknownArchetypeIsDefault ==
  Resolved =>
    /\ (norm(ArchetypeHint) \notin {auto, <<>>}
          /\ ~HasKey(cfg.archetypes, norm(ArchetypeHint))) =>
         /\ strategy[1].archetype = face_big_text
         /\ strategy[1].layout = Get(cfg.archetypes, face_big_text).layout
         /\ strategy[1].prompt_mode = Get(cfg.archetypes, face_big_text).prompt_mode
    /\ HasKey(cfg.archetypes, strategy[1].archetype)

\* build_prompts returned the two prompts for the job
Built == Resolved /\ prompts # None /\ ~IsFault(prompts[1])
AutoArchetype == norm(ArchetypeHint) \in {auto, <<>>}
FacePopulated == sjob[1].uploads.face # None

\* the terms of a prompt: the pieces between the separators ", "
RECURSIVE split(_, _)
split(s, sep) ==
  IF \A i \in 1..Len(s) : s[i] # sep THEN <<s>>
  ELSE LET i == CHOOSE j \in 1..Len(s) : s[j] = sep /\ \A k \in 1..(j - 1) : s[k] # sep
       IN <<SubSeq(s, 1, i - 1)>> \o split(SubSeq(s, i + 1, Len(s)), sep)
NegativeTerms == split(prompts[1].negative, ", ")
HasTerm(terms, t) == \E i \in 1..Len(terms) : terms[i] = <<t>>

\* C13: with an archetype hint of AUTO or blank the archetype is face_big_text when
\* the face slot is populated and no_face_big_text otherwise; hasFace says whether
\* the face slot is populated; and with no face, where no_face_big_text has
\* promptMode background_only, the negative prompt has the terms person and face.
AutoArchetypeByFace ==
  /\ Resolved =>
       /\ AutoArchetype =>
            strategy[1].archetype =
              IF FacePopulated THEN face_big_text ELSE no_face_big_text
       /\ strategy[1].has_face = FacePopulated
  /\ (/\ Built
      /\ AutoArchetype
      /\ ~FacePopulated
      /\ HasKey(cfg.archetypes, no_face_big_text)
      /\ Get(cfg.archetypes, no_face_big_text).prompt_mode = "background_only") =>
       /\ HasTerm(NegativeTerms, "person")
       /\ HasTerm(NegativeTerms, "face")

\* a faceless job with an AUTO hint got no_face_big_text and a negative prompt
\* naming person and face
FacelessAutoBuilt ==
  /\ Built
  /\ AutoArchetype
  /\ ~FacePopulated
  /\ strategy[1].archetype = no_face_big_text
  /\ strategy[1].prompt_mode = "background_only"
  /\ ~strategy[1].has_face
  /\ HasTerm(NegativeTerms, "person")
  /\ HasTerm(NegativeTerms, "face")

\* the additions to the negative lexicon, by prompt mode
PersonTerms ==
  << <<"person">>, <<"people">>, <<"human">>, <<"face">>, <<"portrait">>, <<"selfie">>,
     <<"eye">>, <<"eyes">> >>
FramingTerms == << <<"closeup">>, <<"macro">> >>
NoRepeat(terms) ==
  \A i, j \in 1..Len(terms) : i # j => terms[i] # terms[j]

\* C16: in both prompt modes the negative prompt names no term twice; its terms are
\* the base negative lexicon followed by the additions of the mode, in that order.
NegativeTermsOnce ==
  Built =>
    /\ NoRepeat(NegativeTerms)
    /\ NegativeTerms =
         BaseNegativeTerms \o
           (IF strategy[1].prompt_mode = "background_only"
            THEN PersonTerms \o FramingTerms ELSE FramingTerms)

\* a background_only negative prompt was built: base lexicon and ten additions
BackgroundNegativeBuilt ==
  /\ Built
  /\ strategy[1].prompt_mode = "background_only"
  /\ Len(NegativeTerms) = Len(BaseNegativeTerms) + 10
  /\ NoRepeat(NegativeTerms)

\* C14: when api_next_job returns a job, the returned record has status processing,
\* a claimed_at stamp and, as computed, the strategy and prompts that build_strategy
\* and build_prompts give for that job and the config, and job.json holds that same
\* record at the return.
ClaimReturnsPersisted ==
  [][\A c \in Claimants :
       (cl[c].pc = "writing" /\ cl'[c].pc = "idle") =>
         LET job == cl[c].job[1]
             strat == build_strategy(cfg, job)
         IN /\ job.status = "processing"
            /\ job.claimed_at # None
            /\ ~IsFault(strat)
            /\ job.computed = [strategy |-> Some(strat),
                               prompts |-> Some(build_prompts(cfg, job, strat))]
            /\ file'[job.job_id] = Json(job)]_vars

\* the fields submit_form writes and no later handler assigns
Creation(job) ==
  [job_id |-> job.job_id, created_at |-> job.created_at, agent |-> job.agent,
   client |-> job.client, video |-> job.video, creative |-> job.creative,
   uploads |-> job.uploads]
\* the step is taken by a handler that is writing the record of job id
OperatesOn(id) ==
  \/ sub' # sub /\ sub.id = id
  \/ co' # co /\ co.id = id /\ co.pc \in {"write", "writing"}
  \/ \E c \in Claimants :
       cl'[c] # cl[c] /\ cl[c].pc \in {"write", "writing"} /\ cl[c].job[1].job_id = id

\* C15: whatever api_next_job and api_upload_result write, the job_id, created_at,
\* agent, client, video, creative and uploads of a job's record stay the ones
\* submit_form wrote, and a step changes job.json only of the job its handler works on.
CreationFieldsKept ==
  [][\A id \in JobIds :
       /\ (durable[id] # None /\ file'[id].kind = "json") =>
            Creation(file'[id].job) = Creation(durable[id][1])
       /\ (durable[id] # None /\ durable'[id] # None) =>
            Creation(durable'[id][1]) = Creation(durable[id][1])
       /\ (file'[id] # file[id] \/ durable'[id] # durable[id]) => OperatesOn(id)]_vars

\* a job with uploads was claimed and completed, and its record still has the
\* uploads and the creation stamp
ClaimedCompletedKept ==
  \E id \in JobIds :
    /\ file[id].kind = "json"
    /\ file[id].job.status = "done"
    /\ file[id].job.claimed_at # None
    /\ file[id].job.uploads.face # None
    /\ file[id].job.created_at # None
    /\ file[id].job.job_id = id

\* build_strategy or build_prompts raises for the job under the loaded config
PlanFaults(job) ==
  \/ IsFault(build_strategy(cfg, job))
  \/ IsFault(build_prompts(cfg, job, build_strategy(cfg, job)))

\* C17: when the plan computation raises during api_next_job, the call ends without
\* a write: the selected job's record is unchanged, still queued with claimed_at
\* and computed null, and no other record and no stored file is changed.
FaultAbortsBeforeWrite ==
  [][\A c \in Claimants :
       (/\ cl[c].pc = "loop"
        /\ cl[c].todo # <<>>
        /\ cl'[c] # cl[c]
        /\ Queued(Head(cl[c].todo))
        /\ PlanFaults(file[Head(cl[c].todo)].job)) =>
         LET kept == file'[Head(cl[c].todo)]
         IN /\ cl'[c] = ClaimIdle
            /\ kept.kind = "json"
            /\ kept.job.status = "queued"
            /\ kept.job.claimed_at = None
            /\ kept.job.computed = [strategy |-> None, prompts |-> None]
            /\ UNCHANGED <<dirs, file, upfiles, resfiles, durable, returned>>]_vars

\* a call raised on a job, and the job's record is the queued one submit_form wrote
FaultLeftQueued ==
  \E id \in faulted :
    /\ Queued(id)
    /\ file[id].job.claimed_at = None
    /\ file[id].job.computed.strategy = None
    /\ PlanFaults(file[id].job)
    /\ returned[id] = 0
    /\ \A c \in Claimants : cl[c].pc = "idle"

NoPlan == [strategy |-> None, prompts |-> None]
NoResults == [zip |-> None, preview |-> None]

\* C18: in every state each record in job.json agrees with its status: queued has
\* claimed_at, done_at, computed and results null; processing has claimed_at and
\* computed set and done_at and results null; done has claimed_at, computed,
\* done_at and results.zip set.
FieldsAgreeWithStatus ==
  \A id \in JobIds :
    file[id].kind = "json" =>
      LET job == file[id].job
      IN /\ job.status \in {"queued", "processing", "done"}
         /\ job.status = "queued" =>
              /\ job.claimed_at = None
              /\ job.done_at = None
              /\ job.computed = NoPlan
              /\ job.results = NoResults
         /\ job.status = "processing" =>
              /\ job.claimed_at # None
              /\ job.computed.strategy # None
              /\ job.computed.prompts # None
              /\ job.done_at = None
              /\ job.results = NoResults
         /\ job.status = "done" =>
              /\ job.claimed_at # None
              /\ job.computed.strategy # None
              /\ job.computed.prompts # None
              /\ job.done_at # None
              /\ job.results.zip # None

\* the names a record refers to, under uploads/ and under results/
UploadRefs(job) ==
  {job.uploads[k][1] : k \in {k \in {"face", "logo", "ref_img"} : job.uploads[k] # None}}
ResultRefs(job) ==
  {job.results[k][1] : k \in {k \in {"zip", "preview"} : job.results[k] # None}}

\* C19: in every state each file a record in job.json refers to exists: the names
\* under uploads are files of the job's uploads directory and the names under
\* results are files of its results directory.
ReferencesStored ==
  \A id \in JobIds :
    file[id].kind = "json" =>
      /\ UploadRefs(file[id].job) \subseteq upfiles[id]
      /\ ResultRefs(file[id].job) \subseteq resfiles[id]
      /\ id \in dirs

\* a record refers to an uploaded face and logo, a result zip and a preview
RecordWithAllRefs ==
  \E id \in JobIds :
    /\ file[id].kind = "json"
    /\ Cardinality(UploadRefs(file[id].job)) = 2
    /\ Cardinality(ResultRefs(file[id].job)) = 2
    /\ UploadRefs(file[id].job) \subseteq upfiles[id]
    /\ ResultRefs(file[id].job) \subseteq resfiles[id]

\* the jobs that have been queued, and the api_next_job calls that returned a job
JobsQueued == {id \in JobIds : durable[id] # None}
RECURSIVE SumReturned(_)
SumReturned(S) ==
  IF S = {} THEN 0
  ELSE LET id == CHOOSE x \in S : TRUE IN returned[id] + SumReturned(S \ {id})
SuccessfulClaims == SumReturned(JobIds)
Quiet == sub.pc = "idle" /\ \A c \in Claimants : cl[c].pc = "idle"
NoPlanFault == faulted = {} /\ \A id \in JobsQueued : ~PlanFaults(durable[id][1])

\* C20, as the result the claim gives for the end of a run: with a config on which
\* no plan computation raises, once the submissions have ended, the workers' calls
\* have returned and no job is left queued, every job that was queued has reached
\* processing and the calls of api_next_job that returned a job are as many as the
\* jobs that were queued; and at no time are there more of them than such jobs.
QueuedAllClaimedOnce ==
  NoPlanFault =>
    /\ SuccessfulClaims <= Cardinality(JobsQueued)
    /\ (Quiet /\ NoQueued) =>
         /\ SuccessfulClaims = Cardinality(JobsQueued)
         /\ \A id \in JobsQueued : durable[id][1].status = "processing"

====
